---- MODULE Spec2Model ----
(***************************************************************************)
(* InferenceEndpointModel (lighteval/models/endpoint_model.py): the        *)
(* request batching, dispatch and response-decoding engine.                *)
(*                                                                         *)
(* Texts are sequences of one-character strings, token ids and logprobs    *)
(* are integers, an optional value (Python None) is the empty sequence     *)
(* and a present value v is <<v>>.                                          *)
(***************************************************************************)
EXTENDS Integers, Sequences, FiniteSets, TLC

VARIABLES
    requests,       \* the caller's request list (objects the run writes to)
    use_async,      \* self.use_async
    pc,             \* position of the single control thread
    op,             \* the run operation in progress or last finished
    returns_logits, \* argument returns_logits of the run
    batch_size,     \* local batch_size of the run
    splits,         \* the dataset's split ranges, <<start, end>> each
    split_id,       \* number of splits the split iterator has yielded
    offset,         \* items of the current split the dataloader has yielded
    batch,          \* current batch: indices into requests
    responses,      \* responses of the current batch, by position
    inflight,       \* positions of the batch whose async call is pending
    results,        \* local results list of the run
    returned,       \* what the caller received: None or <<results>>
    error,          \* the exception that reached the caller, "" if none
    calls,          \* log of the calls issued to the endpoint client
    responded,      \* per request index: the response its call received
    handed,         \* request indices handed to a batch processor, in order
    failed,         \* request indices whose call failed in this run
    reordered,      \* a call completed while an earlier one of its batch was pending
    override_bs,    \* argument override_bs of the run
    given_stops,    \* each request's stop_sequence as the caller passed it
    same_list,      \* the run was passed the request objects of the last run
    error_request,  \* what the exception says of the request it concerns
    config,         \* kind of the configuration the constructor was given
    engine,         \* position of the constructor, "ready" once it returned
    endpoint,       \* self.endpoint: None, or <<state of the endpoint>>
    client,         \* self.client
    async_client,   \* self.async_client
    waits,          \* calls of endpoint.wait made by the constructor
    cleaned,        \* cleanup has been called
    prev,           \* paired runs: what the sequential run was given and returned
    dec_response,   \* decoder check: the response under decoding
    dec_len_choice, \* decoder check: len(tokenized_continuation)
    dec_out         \* decoder check: the decoded return value

vars == <<requests, use_async, pc, op, returns_logits, batch_size, splits, split_id, offset,
          batch, responses, inflight, results, returned, error, calls,
          responded, handed, failed, reordered, override_bs, given_stops,
          same_list, error_request, config, engine, endpoint, client, async_client, waits,
          cleaned,
          prev, dec_response, dec_len_choice, dec_out>>

runVars == <<requests, use_async, pc, op, returns_logits, batch_size, splits, split_id, offset,
             batch, responses, inflight, results, returned, error, calls,
             responded, handed, failed, reordered, override_bs, given_stops,
             same_list, error_request, config, engine, endpoint, client, async_client,
             waits, cleaned, prev>>

argVars == <<override_bs, given_stops, same_list>>

engineVars == <<config, engine, endpoint, client, async_client, waits, cleaned>>

decVars == <<dec_response, dec_len_choice, dec_out>>

-----------------------------------------------------------------------------
(* Bounds of the model *)

MaxN == 2          \* longest request list
MaxOverrideBs == 2 \* largest override_bs argument
MaxStops == 3      \* longest stop_sequence a request may reach
MaxPrefill == 3    \* longest prefill trace fed to the decoders
MaxTokens == 2     \* longest generated-token trace fed to the decoders

(* Program constants *)

DATASET_SPLITS == 4
BATCH_SIZE == 50

-----------------------------------------------------------------------------
(* Python values *)

None == <<>>
Some(v) == <<v>>

Min(a, b) == IF a < b THEN a ELSE b
Max(a, b) == IF a > b THEN a ELSE b

Range(s) == {s[i] : i \in 1..Len(s)}

\* s[i:] with Python's index normalisation
PySliceFrom(s, i) ==
    LET start == IF i < 0 THEN Max(Len(s) + i, 0) ELSE Min(i, Len(s))
    IN  SubSeq(s, start + 1, Len(s))

\* s[:j] with Python's index normalisation
PySliceTo(s, j) ==
    LET stop == IF j < 0 THEN Max(Len(s) + j, 0) ELSE Min(j, Len(s))
    IN  SubSeq(s, 1, stop)

-----------------------------------------------------------------------------
(* The tokenizer capability (self.tokenizer): one token per character *)

eos_token == "</s>"
eos_token_id == 2

CharId(c) ==
    CASE c = "a" -> 11
      [] c = "b" -> 12
      [] c = "x" -> 13
      [] c = "y" -> 14

\* tok_encode(str_to_encode) for a single string, add_special_tokens=False
tok_encode(text) == [i \in 1..Len(text) |-> CharId(text[i])]

-----------------------------------------------------------------------------
(* Requests *)

Request(kind, context, choice, stop_sequence, generation_size) ==
    [kind |-> kind, context |-> context, choice |-> choice,
     stop_sequence |-> stop_sequence, generation_size |-> generation_size,
     tokenized_context |-> None, tokenized_continuation |-> None]

GreedyUntilRequests ==
    { Request("greedy", <<"a">>, <<>>, <<"\n">>, 3),
      Request("greedy", <<"b">>, <<>>, <<>>, 2) }

LoglikelihoodRequests ==
    { Request("loglikelihood", <<"a">>, <<>>, <<>>, 0),
      Request("loglikelihood", <<"b">>, <<"x">>, <<>>, 0) }

LoglikelihoodRollingRequests ==
    { Request("rolling", <<"a">>, <<>>, <<>>, 0),
      Request("rolling", <<"b", "a">>, <<>>, <<>>, 0) }

LoglikelihoodSingleTokenRequests ==
    { Request("single_token", <<"a">>, <<"x">>, <<>>, 0) }

ListsOver(S) == UNION {[1..n -> S] : n \in 0..MaxN}

-----------------------------------------------------------------------------
(* The remote endpoint: text_generation(prompt, details=True,              *)
(* decoder_input_details=True, max_new_tokens, stop_sequences)             *)

Token(id, logprob) == [id |-> id, logprob |-> logprob]

TextGenerationResponse(generated_text, prefill, tokens) ==
    [generated_text |-> generated_text,
     details |-> [prefill |-> prefill, tokens |-> tokens]]

\* the prefill trace of a prompt: the first token carries no logprob
PrefillOf(prompt) ==
    [i \in 1..Len(prompt) |->
        Token(CharId(prompt[i]), IF i = 1 THEN None ELSE Some(0 - i))]

GeneratedOf(n) == [j \in 1..n |-> Token(20 + j, 0 - j)]

\* the responses the endpoint may give to a call: it honours max_new_tokens
\* or overshoots it by one token
EndpointResponses(context, stop_tokens, max_tokens) ==
    { TextGenerationResponse([j \in 1..n |-> 20 + j], PrefillOf(context), GeneratedOf(n)) :
        n \in {max_tokens, max_tokens + 1} }

-----------------------------------------------------------------------------
(* Response decoding *)

Ids(tokens) == [i \in 1..Len(tokens) |-> tokens[i].id]

Logprobs(tokens) == [i \in 1..Len(tokens) |-> tokens[i].logprob]

RECURSIVE LogprobsNotNone(_)
\* [t.logprob for t in tokens if t.logprob is not None]
LogprobsNotNone(tokens) ==
    IF tokens = <<>> THEN <<>>
    ELSE IF Head(tokens).logprob # None
         THEN <<Head(tokens).logprob[1]>> \o LogprobsNotNone(Tail(tokens))
         ELSE LogprobsNotNone(Tail(tokens))

\* the generation result with the prefill logprobs whether asked for or not
GenerateReturn_logits_always(response, with_logits) ==
    [result |-> response.generated_text,
     logits |-> Some(Logprobs(response.details.prefill)),
     truncated_tokens_count |-> 0 - 1,
     padded_tokens_count |-> 0 - 1]

GenerateReturn(response, with_logits) ==
    [result |-> response.generated_text,
     logits |-> IF with_logits THEN Some(Logprobs(response.details.prefill)) ELSE None,
     truncated_tokens_count |-> 0 - 1,
     padded_tokens_count |-> 0 - 1]

\* the continuation tail prefill[-len_choice:]
ContinuationTail(prefill, len_choice) == PySliceFrom(prefill, 0 - len_choice)

\* the context head taken as the first len(prefill) - len_choice entries
ContextHead_first_entries(prefill, len_choice) ==
    SubSeq(prefill, 1, Max(0, Len(prefill) - len_choice))

\* the context head prefill[:-len_choice]
ContextHead(prefill, len_choice) == PySliceTo(prefill, 0 - len_choice)

\* the loglikelihood result with the padding counted as the context tokens
LoglikelihoodReturn_counts_padding(response, len_choice) ==
    [result |-> LogprobsNotNone(ContinuationTail(response.details.prefill, len_choice)),
     input_tokens |-> Ids(ContextHead(response.details.prefill, len_choice)),
     generated_tokens |-> Ids(ContinuationTail(response.details.prefill, len_choice)),
     truncated_tokens_count |-> 0 - 1,
     padded_tokens_count |-> Len(ContextHead(response.details.prefill, len_choice))]

LoglikelihoodReturn(response, len_choice) ==
    [result |-> LogprobsNotNone(ContinuationTail(response.details.prefill, len_choice)),
     input_tokens |-> Ids(ContextHead(response.details.prefill, len_choice)),
     generated_tokens |-> Ids(ContinuationTail(response.details.prefill, len_choice)),
     truncated_tokens_count |-> 0 - 1,
     padded_tokens_count |-> 0 - 1]

\* the generated tokens with the last one kept
AllButLast_keeps_last(tokens) == tokens

\* tokens[:-1]
AllButLast(tokens) == PySliceTo(tokens, 0 - 1)

RollingReturn(response) ==
    [result |-> [i \in 1..Len(AllButLast(response.details.tokens)) |->
                    AllButLast(response.details.tokens)[i].logprob],
     input_tokens |-> Ids(response.details.prefill),
     generated_tokens |-> Ids(AllButLast(response.details.tokens)),
     truncated_tokens_count |-> 0 - 1,
     padded_tokens_count |-> 0 - 1]

-----------------------------------------------------------------------------
(* The dataset abstraction (lighteval.data) and the DataLoader *)

\* the split ranges of a dataset of n requests: dataset_splits contiguous,
\* non-overlapping index ranges <<start, end>> covering [0, n)
DatasetSplits(n, dataset_splits) ==
    { [s \in 1..dataset_splits |-> <<cuts[s - 1], cuts[s]>>] :
        cuts \in { c \in [0..dataset_splits -> 0..n] :
                     /\ c[0] = 0
                     /\ c[dataset_splits] = n
                     /\ \A s \in 1..dataset_splits : c[s - 1] <= c[s] } }

\* len(dataset) while split number sid is current
SplitLen(sp, sid) == sp[sid][2] - sp[sid][1]

\* dataset[index] while split number sid is current: the position in the
\* request list (1-based) of the item the dataset yields
DatasetItem(sp, sid, index) == sp[sid][1] + index + 1

\* a DataLoader that yields the items of a batch last to first
DataLoaderBatch_reversed(sp, sid, off, bs) ==
    LET n == Min(bs, SplitLen(sp, sid) - off)
    IN  [k \in 1..n |-> DatasetItem(sp, sid, off + n - k)]

\* the next batch of a DataLoader(dataset, batch_size) that has yielded off items
DataLoaderBatch(sp, sid, off, bs) ==
    [k \in 1..Min(bs, SplitLen(sp, sid) - off) |-> DatasetItem(sp, sid, off + k - 1)]

-----------------------------------------------------------------------------
(* Call parameters and batch processors *)

\* the arguments of a call, a rolling request asking for two new tokens
CallParams_rolling_two_tokens(operation, request) ==
    CASE operation = "greedy_until" ->
            [context |-> request.context,
             stop_tokens |-> request.stop_sequence,
             max_tokens |-> request.generation_size]
      [] operation = "loglikelihood" ->
            [context |-> request.context \o request.choice,
             stop_tokens |-> <<>>,
             max_tokens |-> 1]
      [] operation = "loglikelihood_rolling" ->
            [context |-> request.context,
             stop_tokens |-> <<>>,
             max_tokens |-> 2]

\* the arguments of a call, a loglikelihood request scored as a rolling one
CallParams_rolling_always(operation, request) ==
    CASE operation = "greedy_until" ->
            [context |-> request.context,
             stop_tokens |-> request.stop_sequence,
             max_tokens |-> request.generation_size]
      [] operation \in {"loglikelihood", "loglikelihood_rolling"} ->
            [context |-> request.context,
             stop_tokens |-> <<>>,
             max_tokens |-> 1]

\* the arguments of one text_generation call, per request kind
CallParams(operation, request) ==
    CASE operation = "greedy_until" ->
            [context |-> request.context,
             stop_tokens |-> request.stop_sequence,
             max_tokens |-> request.generation_size]
      [] operation = "loglikelihood" ->
            [context |-> request.context \o request.choice,
             stop_tokens |-> <<>>,
             max_tokens |-> 1]
      [] operation = "loglikelihood_rolling" ->
            [context |-> request.context,
             stop_tokens |-> <<>>,
             max_tokens |-> 1]

Call(i, params, handle) ==
    [request |-> i, context |-> params.context, stop_tokens |-> params.stop_tokens,
     max_tokens |-> params.max_tokens, client |-> handle]

\* numbers of arguments (besides self) the batch processors can bind
process_batch_generate_params == {1}
process_batch_logprob_params == {1, 2}

\* number of arguments the run operation passes to its batch processor
process_batch_args(operation) ==
    CASE operation = "greedy_until" -> 2
      [] operation = "loglikelihood" -> 1
      [] operation = "loglikelihood_rolling" -> 2

\* the call of the batch processor binds its arguments (else TypeError)
BindsArguments(operation) ==
    IF operation = "greedy_until"
    THEN process_batch_args(operation) \in process_batch_generate_params
    ELSE process_batch_args(operation) \in process_batch_logprob_params

\* gather filling its result list from the last awaitable to the first
gather_last_first(resps, k, r) == [resps EXCEPT ![Len(resps) + 1 - k] = Some(r)]

\* gather filling its result list in the order the calls complete
gather_in_completion_order(resps, k, r) ==
    LET free == {j \in 1..Len(resps) : resps[j] = None}
        first == CHOOSE j \in free : \A q \in free : j <= q
    IN  [resps EXCEPT ![first] = Some(r)]

\* asyncio.gather: the result list is in the order of the awaitables
gather(resps, k, r) == [resps EXCEPT ![k] = Some(r)]

\* the typed result of one response of a batch
Decode(operation, with_logits, request, response) ==
    CASE operation = "greedy_until" -> GenerateReturn(response, with_logits)
      [] operation = "loglikelihood" ->
            LoglikelihoodReturn(response, Len(request.tokenized_continuation[1]))
      [] operation = "loglikelihood_rolling" -> RollingReturn(response)

-----------------------------------------------------------------------------
(* Initial state: a constructed engine, no run made yet *)

OverrideBs == {None} \cup {Some(b) : b \in 1..MaxOverrideBs}

\* the state __init__ leaves behind for a free inference client
Constructed ==
    /\ config = "inference"
    /\ engine = "ready"
    /\ endpoint = None
    /\ client = Some("InferenceClient")
    /\ async_client = Some("AsyncInferenceClient")
    /\ waits = 0
    /\ cleaned = FALSE

\* the endpoint behind the clients exists: a deleted one answers no call
EndpointAnswers == endpoint # Some("deleted")

\* between runs of a constructed engine
Idle == pc = "idle" /\ engine = "ready"

Ended == pc \in {"returned", "raised"}

\* request lists a caller may pass: fresh ones, or the list of the last run
CallerLists(pool, kind) ==
    ListsOver(pool) \cup
        (IF requests # <<>> /\ requests[1].kind = kind THEN {requests} ELSE {})

InitDecoder ==
    /\ dec_response = TextGenerationResponse(<<>>, <<>>, <<>>)
    /\ dec_len_choice = 0
    /\ dec_out = None

Init ==
    /\ requests = <<>>
    /\ use_async = FALSE
    /\ pc = "idle"
    /\ op = "none"
    /\ returns_logits = FALSE
    /\ batch_size = BATCH_SIZE
    /\ splits = <<>>
    /\ split_id = 0
    /\ offset = 0
    /\ batch = <<>>
    /\ responses = <<>>
    /\ inflight = {}
    /\ results = <<>>
    /\ returned = None
    /\ error = ""
    /\ calls = <<>>
    /\ responded = <<>>
    /\ handed = <<>>
    /\ failed = {}
    /\ reordered = FALSE
    /\ override_bs = None
    /\ given_stops = <<>>
    /\ same_list = FALSE
    /\ error_request = None
    /\ Constructed
    /\ prev = None
    /\ InitDecoder

-----------------------------------------------------------------------------
(* The run operations up to their split loop *)

\* the caller has taken the return value or the exception of the last run;
\* its request objects live on
CallerContinues ==
    /\ Ended
    /\ pc' = "idle"
    /\ op' = "none"
    /\ returns_logits' = FALSE
    /\ batch_size' = BATCH_SIZE
    /\ splits' = <<>>
    /\ split_id' = 0
    /\ offset' = 0
    /\ batch' = <<>>
    /\ responses' = <<>>
    /\ inflight' = {}
    /\ results' = <<>>
    /\ returned' = None
    /\ error' = ""
    /\ calls' = <<>>
    /\ responded' = <<>>
    /\ handed' = <<>>
    /\ failed' = {}
    /\ reordered' = FALSE
    /\ override_bs' = None
    /\ given_stops' = <<>>
    /\ same_list' = FALSE
    /\ UNCHANGED <<requests, use_async>>
    /\ error_request' = None
    /\ UNCHANGED <<decVars, engineVars, prev>>

\* the debug switch self.use_async, set between runs
SetUseAsync ==
    /\ Idle
    /\ use_async' = ~use_async
    /\ UNCHANGED <<requests, pc, op, returns_logits, batch_size, splits, split_id,
                   offset, batch, responses, inflight, results, returned, error,
                   calls, responded, handed, failed, reordered>>
    /\ UNCHANGED <<decVars, argVars, engineVars, error_request, prev>>

\* the batch size with override_bs ignored
BatchSize_ignores_override(bs) == BATCH_SIZE

\* batch_size = override_bs if override_bs is not None else BATCH_SIZE
BatchSize(bs) == IF bs # None THEN bs[1] ELSE BATCH_SIZE

\* dataset construction, batch_size and results = [] of a run operation
EnterSplitLoop(operation, orig, reqs, bs) ==
    /\ op' = operation
    /\ given_stops' = [i \in 1..Len(orig) |-> orig[i].stop_sequence]
    /\ same_list' = (orig # <<>> /\ orig = requests)
    /\ requests' = reqs
    /\ override_bs' = bs
    /\ batch_size' = BatchSize(bs)
    /\ splits' \in DatasetSplits(Len(reqs), DATASET_SPLITS)
    /\ split_id' = 0
    /\ offset' = 0
    /\ batch' = <<>>
    /\ responses' = <<>>
    /\ inflight' = {}
    /\ results' = <<>>
    /\ returned' = None
    /\ error' = ""
    /\ calls' = <<>>
    /\ responded' = [i \in 1..Len(reqs) |-> None]
    /\ handed' = <<>>
    /\ failed' = {}
    /\ reordered' = FALSE
    /\ pc' = "splits"
    /\ UNCHANGED use_async
    /\ error_request' = None
    /\ UNCHANGED <<decVars, engineVars, prev>>

\* a run operation that raises before its split loop
RaiseAtEntry(operation, orig, reqs, bs, err) ==
    /\ op' = operation
    /\ given_stops' = [i \in 1..Len(orig) |-> orig[i].stop_sequence]
    /\ same_list' = (orig # <<>> /\ orig = requests)
    /\ requests' = reqs
    /\ override_bs' = bs
    /\ batch_size' = BATCH_SIZE
    /\ splits' = <<>>
    /\ split_id' = 0
    /\ offset' = 0
    /\ batch' = <<>>
    /\ responses' = <<>>
    /\ inflight' = {}
    /\ results' = <<>>
    /\ returned' = None
    /\ error' = err
    /\ calls' = <<>>
    /\ responded' = [i \in 1..Len(reqs) |-> None]
    /\ handed' = <<>>
    /\ failed' = {}
    /\ reordered' = FALSE
    /\ pc' = "raised"
    /\ UNCHANGED use_async
    /\ error_request' = None
    /\ UNCHANGED <<decVars, engineVars, prev>>

WithEos(request) == [request EXCEPT !.stop_sequence = @ \o <<eos_token>>]

greedy_until ==
    /\ Idle
    /\ \E reqs \in CallerLists(GreedyUntilRequests, "greedy"),
          logits \in BOOLEAN, bs \in OverrideBs :
        /\ \A i \in 1..Len(reqs) : Len(reqs[i].stop_sequence) < MaxStops
        /\ returns_logits' = logits
        /\ EnterSplitLoop("greedy_until", reqs,
                          [i \in 1..Len(reqs) |-> WithEos(reqs[i])], bs)

\* keyword parameters of greedy_until
greedy_until_keywords == {"returns_logits", "disable_tqdm", "override_bs"}

\* keyword arguments greedy_until_with_logits passes to greedy_until
greedy_until_with_logits_passes ==
    {"returns_logits", "disable_tqdm", "override_bs", "dataset_splits"}

\* return self.greedy_until(requests, returns_logits=True, ...): a keyword
\* greedy_until does not have is a TypeError before its body runs
greedy_until_with_logits ==
    /\ Idle
    /\ \E reqs \in CallerLists(GreedyUntilRequests, "greedy"), bs \in OverrideBs :
        /\ \A i \in 1..Len(reqs) : Len(reqs[i].stop_sequence) < MaxStops
        /\ returns_logits' = TRUE
        /\ IF greedy_until_with_logits_passes \subseteq greedy_until_keywords
           THEN EnterSplitLoop("greedy_until", reqs,
                               [i \in 1..Len(reqs) |-> WithEos(reqs[i])], bs)
           ELSE RaiseAtEntry("greedy_until_with_logits", reqs, reqs, bs,
                             "TypeError")

\* a tokenization that extends the token fields a request already has
LoglikelihoodTokenized_extends(request) ==
    [request EXCEPT
        !.tokenized_context =
            IF @ = None THEN Some(tok_encode(request.context))
            ELSE Some(@[1] \o tok_encode(request.context)),
        !.tokenized_continuation =
            IF @ = None THEN Some(tok_encode(request.choice))
            ELSE Some(@[1] \o tok_encode(request.choice))]

LoglikelihoodTokenized(request) ==
    [request EXCEPT !.tokenized_context = Some(tok_encode(request.context)),
                    !.tokenized_continuation = Some(tok_encode(request.choice))]

loglikelihood ==
    /\ Idle
    /\ \E reqs \in CallerLists(LoglikelihoodRequests, "loglikelihood"),
          bs \in OverrideBs :
        /\ returns_logits' = FALSE
        /\ \/ EnterSplitLoop("loglikelihood", reqs,
                             [i \in 1..Len(reqs) |-> LoglikelihoodTokenized(reqs[i])],
                             bs)
           \/ \E k \in 1..Len(reqs), at_choice \in BOOLEAN :
                \* the tokenizer raises while request k is encoded
                RaiseAtEntry("loglikelihood", reqs,
                    [i \in 1..Len(reqs) |->
                        IF i < k THEN LoglikelihoodTokenized(reqs[i])
                        ELSE IF i = k /\ at_choice
                             THEN [reqs[i] EXCEPT !.tokenized_context =
                                                    Some(tok_encode(reqs[i].context))]
                             ELSE reqs[i]],
                    bs, "TokenizationFailure")

RollingTokenized(request) ==
    [request EXCEPT !.tokenized_context = Some(<<eos_token_id>>),
                    !.tokenized_continuation = Some(tok_encode(request.context))]

\* a rolling run that goes on over the requests the tokenizer failed on
loglikelihood_rolling_skips_failure ==
    /\ Idle
    /\ \E reqs \in CallerLists(LoglikelihoodRollingRequests, "rolling"),
          bs \in OverrideBs :
        /\ returns_logits' = FALSE
        /\ \/ EnterSplitLoop("loglikelihood_rolling", reqs,
                             [i \in 1..Len(reqs) |-> RollingTokenized(reqs[i])],
                             bs)
           \/ \E k \in 1..Len(reqs) :
                EnterSplitLoop("loglikelihood_rolling", reqs,
                    [i \in 1..Len(reqs) |->
                        IF i < k THEN RollingTokenized(reqs[i]) ELSE reqs[i]],
                    bs)

loglikelihood_rolling ==
    /\ Idle
    /\ \E reqs \in CallerLists(LoglikelihoodRollingRequests, "rolling"),
          bs \in OverrideBs :
        /\ returns_logits' = FALSE
        /\ \/ EnterSplitLoop("loglikelihood_rolling", reqs,
                             [i \in 1..Len(reqs) |-> RollingTokenized(reqs[i])],
                             bs)
           \/ \E k \in 1..Len(reqs) :
                \* the tokenizer raises while request k is encoded
                RaiseAtEntry("loglikelihood_rolling", reqs,
                    [i \in 1..Len(reqs) |->
                        IF i < k THEN RollingTokenized(reqs[i])
                        ELSE IF i = k
                             THEN [reqs[i] EXCEPT !.tokenized_context =
                                                    Some(<<eos_token_id>>)]
                             ELSE reqs[i]],
                    bs, "TokenizationFailure")

\* single-token scoring that runs over no request and returns []
loglikelihood_single_token_returns_empty ==
    /\ Idle
    /\ \E reqs \in CallerLists(LoglikelihoodSingleTokenRequests, "single_token"),
          bs \in OverrideBs :
        /\ returns_logits' = FALSE
        /\ EnterSplitLoop("loglikelihood_single_token", reqs, <<>>, bs)

loglikelihood_single_token ==
    /\ Idle
    /\ \E reqs \in CallerLists(LoglikelihoodSingleTokenRequests, "single_token"),
          bs \in OverrideBs :
        /\ returns_logits' = FALSE
        /\ RaiseAtEntry("loglikelihood_single_token", reqs, reqs, bs, "ValueError")

-----------------------------------------------------------------------------
(* The split loop and the batch loop *)

\* the split iterator yields the next split; a new DataLoader is made
NextSplit ==
    /\ pc = "splits"
    /\ split_id < DATASET_SPLITS
    /\ split_id' = split_id + 1
    /\ offset' = 0
    /\ pc' = "batches"
    /\ UNCHANGED <<requests, use_async, op, returns_logits, batch_size, splits,
                   batch, responses, inflight, results, returned, error, calls,
                   responded, handed, failed, reordered>>
    /\ UNCHANGED <<decVars, argVars, engineVars, error_request, prev>>

\* the split iterator is exhausted: return results
ReturnResults ==
    /\ pc = "splits"
    /\ split_id = DATASET_SPLITS
    /\ returned' = Some(results)
    /\ pc' = "returned"
    /\ UNCHANGED <<requests, use_async, op, returns_logits, batch_size, splits,
                   split_id, offset, batch, responses, inflight, results, error,
                   calls, responded, handed, failed, reordered>>
    /\ UNCHANGED <<decVars, argVars, engineVars, error_request, prev>>

\* a DataLoader that yields one more, empty batch at the end of a split
NextBatch_yields_empty ==
    /\ pc = "batches"
    /\ offset <= SplitLen(splits, split_id)
    /\ batch' = DataLoaderBatch(splits, split_id, offset, batch_size)
    /\ handed' = handed \o batch'
    /\ responses' = <<>>
    /\ pc' = "dispatch"
    /\ UNCHANGED <<requests, use_async, op, returns_logits, batch_size, splits,
                   split_id, offset, inflight, results, returned, error, calls,
                   responded, failed, reordered>>
    /\ UNCHANGED <<decVars, argVars, engineVars, error_request, prev>>

\* the DataLoader yields the next batch of the current split
NextBatch ==
    /\ pc = "batches"
    /\ offset < SplitLen(splits, split_id)
    /\ batch' = DataLoaderBatch(splits, split_id, offset, batch_size)
    /\ handed' = handed \o batch'
    /\ responses' = <<>>
    /\ pc' = "dispatch"
    /\ UNCHANGED <<requests, use_async, op, returns_logits, batch_size, splits,
                   split_id, offset, inflight, results, returned, error, calls,
                   responded, failed, reordered>>
    /\ UNCHANGED <<decVars, argVars, engineVars, error_request, prev>>

\* the DataLoader of the current split is exhausted
EndOfSplit ==
    /\ pc = "batches"
    /\ offset >= SplitLen(splits, split_id)
    /\ pc' = "splits"
    /\ UNCHANGED <<requests, use_async, op, returns_logits, batch_size, splits,
                   split_id, offset, batch, responses, inflight, results, returned,
                   error, calls, responded, handed, failed, reordered>>
    /\ UNCHANGED <<decVars, argVars, engineVars, error_request, prev>>

\* an exception that leaves the run operation wrapped with the operation and
\* the first request of the batch
Raise_with_request(err) ==
    /\ pc' = "raised"
    /\ error' = err
    /\ error_request' = Some([index |-> IF batch # <<>> THEN batch[1] ELSE 0,
                              kind |-> op])
    /\ inflight' = {}
    /\ UNCHANGED <<requests, use_async, op, returns_logits, batch_size, splits,
                   split_id, offset, batch, results, returned, handed,
                   reordered>>
    /\ UNCHANGED <<decVars, argVars, engineVars, prev>>

\* an exception that hands the caller the results decoded so far
Raise_returns_decoded(err) ==
    /\ pc' = "raised"
    /\ error' = err
    /\ error_request' = None
    /\ inflight' = {}
    /\ returned' = Some(results)
    /\ UNCHANGED <<requests, use_async, op, returns_logits, batch_size, splits,
                   split_id, offset, batch, results, handed, reordered>>
    /\ UNCHANGED <<decVars, argVars, engineVars, prev>>

\* an exception leaves the run operation as it was raised: the caller
\* receives no results
Raise(err) ==
    /\ pc' = "raised"
    /\ error' = err
    /\ error_request' = None
    /\ inflight' = {}
    /\ UNCHANGED <<requests, use_async, op, returns_logits, batch_size, splits,
                   split_id, offset, batch, results, returned, handed,
                   reordered>>
    /\ UNCHANGED <<decVars, argVars, engineVars, prev>>

\* the call of the batch processor cannot bind its arguments
BatchProcessorTypeError ==
    /\ pc = "dispatch"
    /\ ~BindsArguments(op)
    /\ Raise("TypeError")
    /\ UNCHANGED <<responses, calls, responded, failed>>

\* sequential mode: the batch processor starts its list comprehension
process_batch ==
    /\ pc = "dispatch"
    /\ ~use_async
    /\ BindsArguments(op)
    /\ pc' = "calling"
    /\ UNCHANGED <<requests, use_async, op, returns_logits, batch_size, splits,
                   split_id, offset, batch, responses, inflight, results, returned,
                   error, calls, responded, handed, failed, reordered>>
    /\ UNCHANGED <<decVars, argVars, engineVars, error_request, prev>>

\* a sequential call whose failure is swallowed: the loop goes on
process_request_continues ==
    /\ pc = "calling"
    /\ LET k == Len(responses) + 1
           i == batch[k]
           params == CallParams(op, requests[i])
       IN  /\ calls' = Append(calls, Call(i, params, "client"))
           /\ \E r \in EndpointResponses(params.context, params.stop_tokens,
                                         params.max_tokens), ok \in BOOLEAN :
                /\ responses' = Append(responses, Some(r))
                /\ responded' = [responded EXCEPT ![i] = Some(r)]
                /\ failed' = IF ok THEN failed ELSE failed \cup {i}
                /\ pc' = IF k = Len(batch) THEN "decode" ELSE "calling"
                /\ UNCHANGED <<requests, use_async, op, returns_logits,
                               batch_size, splits, split_id, offset, batch,
                               inflight, results, returned, error, handed,
                               reordered>>
                /\ UNCHANGED <<decVars, argVars, engineVars, error_request, prev>>

\* a blocking call that is issued again when it fails
process_request_retries ==
    /\ pc = "calling"
    /\ LET k == Len(responses) + 1
           i == batch[k]
           params == CallParams(op, requests[i])
       IN  /\ calls' = Append(calls, Call(i, params, "client"))
           /\ \/ \E r \in EndpointResponses(params.context, params.stop_tokens,
                                            params.max_tokens) :
                    /\ responses' = Append(responses, Some(r))
                    /\ responded' = [responded EXCEPT ![i] = Some(r)]
                    /\ pc' = IF k = Len(batch) THEN "decode" ELSE "calling"
                    /\ UNCHANGED failed
              \/ /\ failed' = failed \cup {i}
                 /\ UNCHANGED <<responses, responded, pc>>
           /\ UNCHANGED <<requests, use_async, op, returns_logits,
                          batch_size, splits, split_id, offset, batch,
                          inflight, results, returned, error, handed,
                          reordered>>
           /\ UNCHANGED <<decVars, argVars, engineVars, error_request, prev>>

\* sequential mode: one blocking client.text_generation call
process_request ==
    /\ pc = "calling"
    /\ LET k == Len(responses) + 1
           i == batch[k]
           params == CallParams(op, requests[i])
       IN  /\ calls' = Append(calls, Call(i, params, "client"))
           /\ \/ \E r \in EndpointResponses(params.context, params.stop_tokens,
                                            params.max_tokens) :
                    /\ EndpointAnswers
                    /\ responses' = Append(responses, Some(r))
                    /\ responded' = [responded EXCEPT ![i] = Some(r)]
                    /\ pc' = IF k = Len(batch) THEN "decode" ELSE "calling"
                    /\ UNCHANGED <<requests, use_async, op, returns_logits,
                                   batch_size, splits, split_id, offset, batch,
                                   inflight, results, returned, error, handed, failed,
                                   reordered>>
                    /\ UNCHANGED <<decVars, argVars, engineVars, error_request, prev>>
              \/ /\ Raise("RemoteCallFailure")
                 /\ failed' = failed \cup {i}
                 /\ UNCHANGED <<responses, responded>>

\* concurrent mode: asyncio.gather issues one call per request of the batch
async_process_batch ==
    /\ pc = "dispatch"
    /\ use_async
    /\ BindsArguments(op)
    /\ calls' = calls \o [k \in 1..Len(batch) |->
                            Call(batch[k], CallParams(op, requests[batch[k]]),
                                 "async_client")]
    /\ inflight' = 1..Len(batch)
    /\ responses' = [k \in 1..Len(batch) |-> None]
    /\ pc' = "gathering"
    /\ UNCHANGED <<requests, use_async, op, returns_logits, batch_size, splits,
                   split_id, offset, batch, results, returned, error, responded,
                   handed, failed, reordered>>
    /\ UNCHANGED <<decVars, argVars, engineVars, error_request, prev>>

\* a join that ends as soon as one of the pending calls has completed
async_response_first_completed ==
    /\ pc = "gathering"
    /\ \E k \in inflight :
        LET i == batch[k]
            params == CallParams(op, requests[i])
        IN  \E r \in EndpointResponses(params.context, params.stop_tokens,
                                       params.max_tokens) :
                /\ responses' = gather(responses, k, r)
                /\ responded' = [responded EXCEPT ![i] = Some(r)]
                /\ inflight' = inflight \ {k}
                /\ reordered' = (reordered \/ \E j \in inflight : j < k)
                /\ pc' = "decode"
    /\ UNCHANGED <<requests, use_async, op, returns_logits, batch_size, splits,
                   split_id, offset, batch, results, returned, error, calls,
                   handed, failed>>
    /\ UNCHANGED <<decVars, argVars, engineVars, error_request, prev>>

\* concurrent mode: one of the pending calls completes
async_response ==
    /\ pc = "gathering"
    /\ \E k \in inflight :
        LET i == batch[k]
            params == CallParams(op, requests[i])
        IN  \E r \in EndpointResponses(params.context, params.stop_tokens,
                                       params.max_tokens) :
                /\ EndpointAnswers
                /\ responses' = gather(responses, k, r)
                /\ responded' = [responded EXCEPT ![i] = Some(r)]
                /\ inflight' = inflight \ {k}
                /\ reordered' = (reordered \/ \E j \in inflight : j < k)
                /\ pc' = IF inflight' = {} THEN "decode" ELSE "gathering"
    /\ UNCHANGED <<requests, use_async, op, returns_logits, batch_size, splits,
                   split_id, offset, batch, results, returned, error, calls,
                   handed, failed>>
    /\ UNCHANGED <<decVars, argVars, engineVars, error_request, prev>>

\* a failing concurrent call after which the run returns what it has
async_failure_returns_partial ==
    /\ pc = "gathering"
    /\ \E k \in inflight : failed' = failed \cup {batch[k]}
    /\ inflight' = {}
    /\ returned' = Some(results)
    /\ pc' = "returned"
    /\ UNCHANGED <<requests, use_async, op, returns_logits, batch_size, splits,
                   split_id, offset, batch, responses, results, error, calls,
                   responded, handed, reordered>>
    /\ UNCHANGED <<decVars, argVars, engineVars, error_request, prev>>

\* concurrent mode: one of the pending calls fails; gather raises, asyncio.run
\* cancels the calls still pending
async_failure ==
    /\ pc = "gathering"
    /\ \E k \in inflight : failed' = failed \cup {batch[k]}
    /\ Raise("RemoteCallFailure")
    /\ UNCHANGED <<responses, calls, responded>>

\* the responses of the batch are decoded and appended to results
DecodeBatch ==
    /\ pc = "decode"
    /\ results' = results \o
          [k \in 1..Len(responses) |->
              Decode(op, returns_logits, requests[batch[k]], responses[k][1])]
    /\ offset' = offset + Len(batch)
    /\ pc' = "batches"
    /\ UNCHANGED <<requests, use_async, op, returns_logits, batch_size, splits,
                   split_id, batch, responses, inflight, returned, error, calls,
                   responded, handed, failed, reordered>>
    /\ UNCHANGED <<decVars, argVars, engineVars, error_request, prev>>

-----------------------------------------------------------------------------

Next ==
    \/ CallerContinues
    \/ SetUseAsync
    \/ greedy_until
    \/ greedy_until_with_logits
    \/ loglikelihood
    \/ loglikelihood_rolling
    \/ loglikelihood_single_token
    \/ NextSplit
    \/ ReturnResults
    \/ NextBatch
    \/ EndOfSplit
    \/ BatchProcessorTypeError
    \/ process_batch
    \/ process_request
    \/ async_process_batch
    \/ async_response
    \/ async_failure
    \/ DecodeBatch

Spec == Init /\ [][Next]_vars

-----------------------------------------------------------------------------
(* The response decoders on arbitrary responses *)

SeqsUpTo(S, n) == UNION {[1..m -> S] : m \in 0..n}

PrefillTokens == {Token(id, lp) : id \in {11, 12}, lp \in {None, Some(0 - 1)}}

GeneratedTokens == {Token(21, 0 - 1), Token(22, 0 - 2)}

RawResponses ==
    { TextGenerationResponse(Ids(tokens), prefill, tokens) :
        prefill \in SeqsUpTo(PrefillTokens, MaxPrefill),
        tokens \in SeqsUpTo(GeneratedTokens, MaxTokens) }

InitDecode ==
    /\ requests = <<>>
    /\ use_async = FALSE
    /\ pc = "idle"
    /\ op = "none"
    /\ returns_logits \in BOOLEAN
    /\ batch_size = BATCH_SIZE
    /\ splits = <<>>
    /\ split_id = 0
    /\ offset = 0
    /\ batch = <<>>
    /\ responses = <<>>
    /\ inflight = {}
    /\ results = <<>>
    /\ returned = None
    /\ error = ""
    /\ calls = <<>>
    /\ responded = <<>>
    /\ handed = <<>>
    /\ failed = {}
    /\ reordered = FALSE
    /\ override_bs = None
    /\ given_stops = <<>>
    /\ same_list = FALSE
    /\ error_request = None
    /\ Constructed
    /\ prev = None
    /\ dec_response \in RawResponses
    /\ dec_len_choice \in 0..(MaxPrefill + 1)
    /\ dec_out = None

\* greedy_until's decoding of one response
DecodeGreedy ==
    /\ dec_out' = Some([kind |-> "greedy",
                        ret |-> GenerateReturn(dec_response, returns_logits)])
    /\ UNCHANGED <<dec_response, dec_len_choice>>
    /\ UNCHANGED runVars

\* loglikelihood's decoding of one response
DecodeLoglikelihood ==
    /\ dec_out' = Some([kind |-> "loglikelihood",
                        ret |-> LoglikelihoodReturn(dec_response, dec_len_choice)])
    /\ UNCHANGED <<dec_response, dec_len_choice>>
    /\ UNCHANGED runVars

\* loglikelihood_rolling's decoding of one response
DecodeRolling ==
    /\ dec_out' = Some([kind |-> "rolling", ret |-> RollingReturn(dec_response)])
    /\ UNCHANGED <<dec_response, dec_len_choice>>
    /\ UNCHANGED runVars

NextDecode ==
    \/ DecodeGreedy
    \/ DecodeLoglikelihood
    \/ DecodeRolling

SpecDecode == InitDecode /\ [][NextDecode]_vars

-----------------------------------------------------------------------------
(* Paired runs: a sequential run that returned is repeated concurrently,   *)
(* the same operation over the same requests, the endpoint answering each  *)
(* request as it did before                                                *)

\* the caller keeps what the sequential run returned, sets use_async and is
\* about to repeat the run
RepeatConcurrently ==
    /\ pc = "returned"
    /\ ~use_async
    /\ prev = None
    /\ prev' = Some([op |-> op, returns_logits |-> returns_logits,
                     requests |-> requests, responded |-> responded,
                     returned |-> returned[1]])
    /\ use_async' = TRUE
    /\ pc' = "idle"
    /\ op' = "none"
    /\ returns_logits' = FALSE
    /\ batch_size' = BATCH_SIZE
    /\ splits' = <<>>
    /\ split_id' = 0
    /\ offset' = 0
    /\ batch' = <<>>
    /\ responses' = <<>>
    /\ inflight' = {}
    /\ results' = <<>>
    /\ returned' = None
    /\ error' = ""
    /\ error_request' = None
    /\ calls' = <<>>
    /\ responded' = <<>>
    /\ handed' = <<>>
    /\ failed' = {}
    /\ reordered' = FALSE
    /\ override_bs' = None
    /\ given_stops' = <<>>
    /\ same_list' = FALSE
    /\ UNCHANGED requests
    /\ UNCHANGED <<decVars, engineVars>>

\* the repeated run is the kept one again: same operation, same requests, and
\* every call answered as in the kept run
Repeats ==
    prev # None =>
        /\ op \in {"none", prev[1].op}
        /\ op # "none" =>
              /\ requests = prev[1].requests
              /\ returns_logits = prev[1].returns_logits
        /\ failed = {}
        /\ \A i \in DOMAIN responded :
              responded[i] # None => responded[i] = prev[1].responded[i]

InitModes == Init

NextModes ==
    \/ RepeatConcurrently
    \/ prev = None /\ CallerContinues
    \/ greedy_until /\ Repeats'
    \/ loglikelihood /\ Repeats'
    \/ loglikelihood_rolling /\ Repeats'
    \/ NextSplit
    \/ ReturnResults
    \/ NextBatch
    \/ EndOfSplit
    \/ BatchProcessorTypeError
    \/ process_batch
    \/ process_request
    \/ async_process_batch
    \/ async_response /\ Repeats'
    \/ DecodeBatch

SpecModes == InitModes /\ [][NextModes]_vars

-----------------------------------------------------------------------------
(* Construction (__init__) followed by sequential runs *)

Configs == {"endpoint_reuse", "endpoint_create", "inference"}

InitLifecycle ==
    /\ requests = <<>>
    /\ use_async = FALSE
    /\ pc = "idle"
    /\ op = "none"
    /\ returns_logits = FALSE
    /\ batch_size = BATCH_SIZE
    /\ splits = <<>>
    /\ split_id = 0
    /\ offset = 0
    /\ batch = <<>>
    /\ responses = <<>>
    /\ inflight = {}
    /\ results = <<>>
    /\ returned = None
    /\ error = ""
    /\ calls = <<>>
    /\ responded = <<>>
    /\ handed = <<>>
    /\ failed = {}
    /\ reordered = FALSE
    /\ override_bs = None
    /\ given_stops = <<>>
    /\ same_list = FALSE
    /\ error_request = None
    /\ prev = None
    /\ config \in Configs
    /\ engine = "new"
    /\ endpoint = None
    /\ client = None
    /\ async_client = None
    /\ waits = 0
    /\ cleaned = FALSE
    /\ InitDecoder

\* self.endpoint = get_inference_endpoint(...): the existing endpoint, which
\* may or may not be running yet
get_inference_endpoint ==
    /\ engine = "new"
    /\ config = "endpoint_reuse"
    /\ endpoint' \in {Some("pending"), Some("running")}
    /\ engine' = "deploying"
    /\ UNCHANGED <<cleaned, config, client, async_client, waits>>
    /\ UNCHANGED <<requests, use_async, pc, op, returns_logits, batch_size, splits,
                   split_id, offset, batch, responses, inflight, results, returned,
                   error, calls, responded, handed, failed, reordered>>
    /\ UNCHANGED <<decVars, argVars, error_request, prev>>

\* self.endpoint = create_inference_endpoint(...)
create_inference_endpoint ==
    /\ engine = "new"
    /\ config = "endpoint_create"
    /\ endpoint' = Some("pending")
    /\ engine' = "deploying"
    /\ UNCHANGED <<cleaned, config, client, async_client, waits>>
    /\ UNCHANGED <<requests, use_async, pc, op, returns_logits, batch_size, splits,
                   split_id, offset, batch, responses, inflight, results, returned,
                   error, calls, responded, handed, failed, reordered>>
    /\ UNCHANGED <<decVars, argVars, error_request, prev>>

\* a wait whose timeout is swallowed
endpoint_wait_ignores_timeout ==
    /\ engine = "deploying"
    /\ waits' = waits + 1
    /\ engine' = "deployed"
    /\ \/ endpoint' = Some("running")
       \/ endpoint = Some("pending") /\ UNCHANGED endpoint
    /\ UNCHANGED <<cleaned, config, client, async_client>>
    /\ UNCHANGED <<requests, use_async, pc, op, returns_logits, batch_size, splits,
                   split_id, offset, batch, responses, inflight, results, returned,
                   error, calls, responded, handed, failed, reordered>>
    /\ UNCHANGED <<decVars, argVars, error_request, prev>>

\* self.endpoint.wait(timeout=600): returns once the endpoint runs, raises
\* out of __init__ when the timeout expires first
endpoint_wait ==
    /\ engine = "deploying"
    /\ waits' = waits + 1
    /\ \/ /\ endpoint' = Some("running")
          /\ engine' = "deployed"
          /\ UNCHANGED error
       \/ /\ endpoint = Some("pending")
          /\ engine' = "failed"
          /\ error' = "InferenceEndpointTimeoutError"
          /\ UNCHANGED endpoint
    /\ UNCHANGED <<cleaned, config, client, async_client>>
    /\ UNCHANGED <<requests, use_async, pc, op, returns_logits, batch_size, splits,
                   split_id, offset, batch, responses, inflight, results, returned,
                   calls, responded, handed, failed, reordered>>
    /\ UNCHANGED <<decVars, argVars, error_request, prev>>

\* a constructor that leaves the engine in concurrent mode
endpoint_clients_concurrent ==
    /\ engine = "deployed"
    /\ async_client' = Some("endpoint.async_client")
    /\ client' = Some("endpoint.client")
    /\ use_async' = TRUE
    /\ engine' = "ready"
    /\ UNCHANGED <<cleaned, config, endpoint, waits>>
    /\ UNCHANGED <<requests, pc, op, returns_logits, batch_size, splits,
                   split_id, offset, batch, responses, inflight, results, returned,
                   error, calls, responded, handed, failed, reordered>>
    /\ UNCHANGED <<decVars, argVars, error_request, prev>>

\* the client handles of the deployed endpoint, use_async and the tokenizer
endpoint_clients ==
    /\ engine = "deployed"
    /\ async_client' = Some("endpoint.async_client")
    /\ client' = Some("endpoint.client")
    /\ use_async' = FALSE
    /\ engine' = "ready"
    /\ UNCHANGED <<cleaned, config, endpoint, waits>>
    /\ UNCHANGED <<requests, pc, op, returns_logits, batch_size, splits,
                   split_id, offset, batch, responses, inflight, results, returned,
                   error, calls, responded, handed, failed, reordered>>
    /\ UNCHANGED <<decVars, argVars, error_request, prev>>

\* the free inference client: no endpoint, clients made from the model name
inference_clients ==
    /\ engine = "new"
    /\ config = "inference"
    /\ endpoint' = None
    /\ async_client' = Some("AsyncInferenceClient")
    /\ client' = Some("InferenceClient")
    /\ use_async' = FALSE
    /\ engine' = "ready"
    /\ UNCHANGED <<cleaned, config, waits>>
    /\ UNCHANGED <<requests, pc, op, returns_logits, batch_size, splits,
                   split_id, offset, batch, responses, inflight, results, returned,
                   error, calls, responded, handed, failed, reordered>>
    /\ UNCHANGED <<decVars, argVars, error_request, prev>>

\* a cleanup that leaves the endpoint as it is
cleanup_keeps_endpoint ==
    /\ Idle
    /\ cleaned' = TRUE
    /\ UNCHANGED <<config, engine, endpoint, client, async_client, waits>>
    /\ UNCHANGED <<requests, use_async, pc, op, returns_logits, batch_size, splits,
                   split_id, offset, batch, responses, inflight, results, returned,
                   error, calls, responded, handed, failed, reordered>>
    /\ UNCHANGED <<decVars, argVars, error_request, prev>>

\* cleanup: if self.endpoint is not None: self.endpoint.delete()
cleanup ==
    /\ Idle
    /\ cleaned' = TRUE
    /\ endpoint' = IF endpoint # None THEN Some("deleted") ELSE endpoint
    /\ UNCHANGED <<config, engine, client, async_client, waits>>
    /\ UNCHANGED <<requests, use_async, pc, op, returns_logits, batch_size, splits,
                   split_id, offset, batch, responses, inflight, results, returned,
                   error, calls, responded, handed, failed, reordered>>
    /\ UNCHANGED <<decVars, argVars, error_request, prev>>

NextLifecycle ==
    \/ get_inference_endpoint
    \/ create_inference_endpoint
    \/ endpoint_wait
    \/ endpoint_clients
    \/ inference_clients
    \/ cleanup
    \/ CallerContinues
    \/ greedy_until
    \/ greedy_until_with_logits
    \/ loglikelihood
    \/ loglikelihood_rolling
    \/ loglikelihood_single_token
    \/ NextSplit
    \/ ReturnResults
    \/ NextBatch
    \/ EndOfSplit
    \/ BatchProcessorTypeError
    \/ process_batch
    \/ process_request
    \/ DecodeBatch

SpecLifecycle == InitLifecycle /\ [][NextLifecycle]_vars

-----------------------------------------------------------------------------
(* Properties *)

LoglikelihoodOps == {"loglikelihood", "loglikelihood_rolling"}

LoopOps == {"greedy_until", "loglikelihood", "loglikelihood_rolling"}

InLoop == pc \in {"splits", "batches", "dispatch", "calling", "gathering", "decode"}

InBatch == pc \in {"dispatch", "calling", "gathering", "decode"}

\* the returned results are, position by position, the decoded responses of
\* the calls made for the requests
ResultsFollowRequests ==
    /\ returned # None
    /\ Len(returned[1]) = Len(requests)
    /\ \A i \in 1..Len(requests) :
        /\ responded[i] # None
        /\ returned[1][i] = Decode(op, returns_logits, requests[i], responded[i][1])

\* C1: a loglikelihood or loglikelihood_rolling run in which every call (and
\* the tokenization) succeeds returns exactly len(requests) results, and
\* results[i] is decoded from the response to the call made for requests[i],
\* in sequential and in concurrent mode, whatever order the calls complete in.
C1_ResultsMatchRequests ==
    (Ended /\ op \in LoglikelihoodOps
        /\ error \notin {"RemoteCallFailure", "TokenizationFailure"})
    => (pc = "returned" /\ ResultsFollowRequests)

\* a concurrent run of two different requests has returned although the
\* second call of a batch completed before the first
C1_Witness ==
    /\ pc = "returned"
    /\ op \in LoglikelihoodOps
    /\ use_async
    /\ reordered
    /\ Len(requests) = 2
    /\ returned[1][1] # returned[1][2]

\* C2: greedy_until on a non-empty request list, with every endpoint call
\* succeeding, returns one GenerateReturn per request, results[i] built from
\* the response for requests[i].
C2_GreedyOneResultPerRequest ==
    (Ended /\ op = "greedy_until" /\ Len(requests) > 0 /\ failed = {})
    => (/\ pc = "returned"
        /\ returned # None
        /\ Len(returned[1]) = Len(requests)
        /\ \A i \in 1..Len(requests) :
            /\ responded[i] # None
            /\ returned[1][i] = GenerateReturn(responded[i][1], returns_logits))

\* C3: for a continuation length L with 0 <= L <= len(prefill), logprobs are
\* the present logprobs of the last L prefill entries, input_tokens the ids
\* of all entries but the last L and generated_tokens the ids of the last L.
C3_LoglikelihoodSlices ==
    (dec_out # None /\ dec_out[1].kind = "loglikelihood"
        /\ dec_len_choice <= Len(dec_response.details.prefill))
    => LET p == dec_response.details.prefill
           n == Len(p)
           L == dec_len_choice
           last == SubSeq(p, n - L + 1, n)
           ret == dec_out[1].ret
       IN  /\ ret.result = LogprobsNotNone(last)
           /\ ret.input_tokens = Ids(SubSeq(p, 1, n - L))
           /\ ret.generated_tokens = Ids(last)
           /\ Len(ret.generated_tokens) = L
           /\ Len(ret.input_tokens) = n - L
           /\ Len(ret.result) <= L

\* C4: for a response with n >= 1 generated tokens, logprobs and
\* generated_tokens are the logprobs and ids of the first n-1 generated
\* tokens, and input_tokens the ids of all prefill entries.
C4_RollingSlices ==
    (dec_out # None /\ dec_out[1].kind = "rolling"
        /\ Len(dec_response.details.tokens) >= 1)
    => LET t == dec_response.details.tokens
           n == Len(t)
           ret == dec_out[1].ret
       IN  /\ Len(ret.result) = n - 1
           /\ Len(ret.generated_tokens) = n - 1
           /\ \A i \in 1..(n - 1) :
                /\ ret.result[i] = t[i].logprob
                /\ ret.generated_tokens[i] = t[i].id
           /\ ret.input_tokens = Ids(dec_response.details.prefill)

\* a response with two generated tokens and a prefill has been decoded
C4_Witness ==
    /\ dec_out # None
    /\ dec_out[1].kind = "rolling"
    /\ Len(dec_response.details.tokens) = 2
    /\ Len(dec_response.details.prefill) >= 1
    /\ Len(dec_out[1].ret.generated_tokens) = 1

\* C5: loglikelihood_single_token raises its ValueError at once, issues no
\* remote call and returns nothing, whatever the request list.
C5_SingleTokenUnsupported ==
    op = "loglikelihood_single_token"
    => (/\ pc = "raised"
        /\ error = "ValueError"
        /\ calls = <<>>
        /\ inflight = {}
        /\ results = <<>>
        /\ returned = None)

\* single-token scoring was called with a non-empty list and has raised
C5_Witness ==
    /\ op = "loglikelihood_single_token"
    /\ Len(requests) >= 1
    /\ pc = "raised"

\* C6: in concurrent mode, once a call of a batch has failed the run has
\* raised the failure to its caller, the caller received no results, and
\* results holds nothing of that batch (only the earlier batches).
C6_ConcurrentFailureNoPartialResults ==
    (use_async /\ failed # {})
    => (/\ pc = "raised"
        /\ error = "RemoteCallFailure"
        /\ returned = None
        /\ failed \subseteq Range(batch)
        /\ Len(results) = Len(handed) - Len(batch))

\* a call of a concurrent batch of two failed after the other had succeeded
C6_Witness ==
    /\ use_async
    /\ failed # {}
    /\ pc = "raised"
    /\ Len(batch) = 2
    /\ \E k \in 1..Len(batch) : responses[k] # None

\* C7: in sequential mode, once the call for request k of a batch has failed
\* the run has raised at once: the failed call is the last call issued, no
\* call was issued for the requests after k in the batch, and no result of
\* the batch exists or reached the caller.
C7_SequentialFailureAborts ==
    (~use_async /\ failed # {})
    => (/\ pc = "raised"
        /\ error = "RemoteCallFailure"
        /\ returned = None
        /\ \E k \in 1..Len(batch) :
            /\ failed = {batch[k]}
            /\ calls[Len(calls)].request = batch[k]
            /\ \A j \in (k + 1)..Len(batch) :
                \A c \in 1..Len(calls) : calls[c].request # batch[j]
        /\ Len(results) = Len(handed) - Len(batch))

\* the first call of a sequential batch of two has failed
C7_Witness ==
    /\ ~use_async
    /\ pc = "raised"
    /\ Len(batch) = 2
    /\ failed = {batch[1]}

\* the split ranges are contiguous, non-overlapping and cover [0, n)
SplitsCover(sp, n) ==
    /\ Len(sp) = DATASET_SPLITS
    /\ sp[1][1] = 0
    /\ sp[DATASET_SPLITS][2] = n
    /\ \A s \in 1..DATASET_SPLITS : sp[s][1] <= sp[s][2]
    /\ \A s \in 1..(DATASET_SPLITS - 1) : sp[s][2] = sp[s + 1][1]

\* C8: a run uses DATASET_SPLITS contiguous, non-overlapping index ranges
\* covering [0, N); its batch size is override_bs when given and BATCH_SIZE
\* otherwise; every batch is a contiguous sub-range of the current split of
\* length 1..batch size; no index is batched twice and a run that returns
\* has batched every index; N=11, B=5, S=1 gives [0..4], [5..9], [10].
C8_BatchPlan ==
    /\ (InLoop /\ op \in LoopOps) =>
        /\ SplitsCover(splits, Len(requests))
        /\ batch_size = (IF override_bs # None THEN override_bs[1] ELSE 50)
    /\ (InBatch /\ op \in LoopOps) =>
        /\ Len(batch) >= 1
        /\ Len(batch) <= batch_size
        /\ \A k \in 1..Len(batch) : batch[k] = batch[1] + k - 1
        /\ splits[split_id][1] < batch[1]
        /\ batch[Len(batch)] <= splits[split_id][2]
    /\ \A a, b \in 1..Len(handed) : a # b => handed[a] # handed[b]
    /\ (pc = "returned" /\ op \in LoopOps) => Range(handed) = 1..Len(requests)
    /\ DatasetSplits(11, 1) = {<< <<0, 11>> >>}
    /\ DataLoaderBatch(<< <<0, 11>> >>, 1, 0, 5) = <<1, 2, 3, 4, 5>>
    /\ DataLoaderBatch(<< <<0, 11>> >>, 1, 5, 5) = <<6, 7, 8, 9, 10>>
    /\ DataLoaderBatch(<< <<0, 11>> >>, 1, 10, 5) = <<11>>

\* a run over two requests of one split has returned after two batches of one
C8_Witness ==
    /\ pc = "returned"
    /\ op = "loglikelihood"
    /\ Len(requests) = 2
    /\ override_bs = Some(1)
    /\ \E s \in 1..DATASET_SPLITS : splits[s] = <<0, 2>>
    /\ Len(returned[1]) = 2

\* C9: the j-th request handed to a batch processor is requests[j] (no
\* reordering), a run that returns has handed over every request, and the
\* results it returns are in the order of the requests.
C9_InputOrderPreserved ==
    /\ \A j \in 1..Len(handed) : handed[j] = j
    /\ (pc = "returned" /\ op \in LoopOps) =>
        /\ Len(handed) = Len(requests)
        /\ Len(returned[1]) = Len(requests)
        /\ \A i \in 1..Len(requests) :
            returned[1][i] = Decode(op, returns_logits, requests[i], responded[i][1])

\* a run over two different requests, one batch of two, has returned
C9_Witness ==
    /\ pc = "returned"
    /\ op \in LoglikelihoodOps
    /\ Len(requests) = 2
    /\ requests[1] # requests[2]
    /\ handed = <<1, 2>>
    /\ \E s \in 1..DATASET_SPLITS : splits[s] = <<0, 2>>
    /\ override_bs = None

\* C10: for every request of a greedy_until run whose calls all succeed,
\* the endpoint client was called with the request's context, its
\* generation_size as max_tokens and its original stop_sequence followed by
\* the tokenizer's eos token as stop tokens.
C10_GreedyCallParams ==
    (Ended /\ op = "greedy_until" /\ failed = {})
    => \A i \in 1..Len(requests) :
        \E c \in 1..Len(calls) :
            /\ calls[c].request = i
            /\ calls[c].context = requests[i].context
            /\ calls[c].max_tokens = requests[i].generation_size
            /\ calls[c].stop_tokens = given_stops[i] \o <<eos_token>>

\* C11: in both dispatch modes, every call issued for a loglikelihood request
\* carries the request's context followed by its choice and every call for a
\* rolling request carries the context alone, each with no stop tokens and
\* max_new_tokens 1
C11_ScoringCallParams ==
    op \in LoglikelihoodOps =>
        \A c \in 1..Len(calls) :
            LET call == calls[c]
                request == requests[call.request]
            IN  /\ call.context = IF op = "loglikelihood"
                                  THEN request.context \o request.choice
                                  ELSE request.context
                /\ call.stop_tokens = <<>>
                /\ call.max_tokens = 1
                /\ call.client = IF use_async THEN "async_client" ELSE "client"

\* a concurrent loglikelihood run has issued the call of a request whose
\* choice is not empty
C11_Witness ==
    /\ op = "loglikelihood"
    /\ use_async
    /\ \E c \in 1..Len(calls) :
          /\ requests[calls[c].request].choice # <<>>
          /\ calls[c].context =
                requests[calls[c].request].context \o requests[calls[c].request].choice

\* C12: when a run that returned sequentially is repeated concurrently, the
\* same operation over the same requests with every call answered by the same
\* response, the concurrent run returns the same result sequence
C12_ModesAgree ==
    ( /\ prev # None
      /\ pc = "returned"
      /\ use_async
      /\ op = prev[1].op
      /\ requests = prev[1].requests
      /\ responded = prev[1].responded )
    => returned[1] = prev[1].returned

\* a concurrent repetition over two requests with different responses has
\* returned, its second call having completed before its first
C12_Witness ==
    /\ prev # None
    /\ pc = "returned"
    /\ use_async
    /\ op = prev[1].op
    /\ op = "loglikelihood"
    /\ requests = prev[1].requests
    /\ responded = prev[1].responded
    /\ Len(requests) = 2
    /\ responded[1] # responded[2]
    /\ reordered
    /\ Len(returned[1]) = 2

\* number of calls issued for request i in the run
CallsFor(i) == Cardinality({c \in 1..Len(calls) : calls[c].request = i})

\* C13: in any run, a failed one included, the endpoint is called at most
\* once for each request, and in a run that returned exactly once for each
C13_NoRetry ==
    op \in LoopOps =>
        /\ \A i \in 1..Len(requests) : CallsFor(i) <= 1
        /\ \A c \in 1..Len(calls) : calls[c].request \in 1..Len(requests)
        /\ pc = "returned" => \A i \in 1..Len(requests) : CallsFor(i) = 1

\* a run over two requests has returned after one call for each
C13_Witness ==
    /\ pc = "returned"
    /\ op \in LoglikelihoodOps
    /\ Len(requests) = 2
    /\ Len(calls) = 2
    /\ CallsFor(1) = 1
    /\ CallsFor(2) = 1

\* C14 (as stated): the failure of a call reaches the caller together with
\* the index and the kind of the request whose call failed
C14_FailureNamesRequest ==
    failed # {} =>
        \E i \in failed : error_request = Some([index |-> i, kind |-> op])

\* C14: the failure of a call reaches the caller as the exception the
\* endpoint client raised, with no results; the exception names neither the
\* index nor the kind of the request whose call failed
C14_FailurePropagatedUnchanged ==
    failed # {} =>
        /\ pc = "raised"
        /\ error = "RemoteCallFailure"
        /\ error_request = None
        /\ returned = None

\* the call of the second of two requests failed and the exception reached
\* the caller
C14_Witness ==
    /\ pc = "raised"
    /\ error = "RemoteCallFailure"
    /\ Len(requests) = 2
    /\ failed = {2}
    /\ responded[1] # None

\* C15: a greedy_until_with_logits run returns one result per request, each
\* with logits
C15_WithLogitsReturnsLogits ==
    (Ended /\ op = "greedy_until_with_logits") =>
        /\ pc = "returned"
        /\ Len(returned[1]) = Len(requests)
        /\ \A i \in 1..Len(requests) : returned[1][i].logits # None

\* C16: the result decoded from a response by greedy_until has the
\* response's generated text and, when logits were requested, the logprob
\* fields of all prefill entries in order, otherwise no logits
C16_GreedyDecoding ==
    (dec_out # None /\ dec_out[1].kind = "greedy") =>
        LET ret == dec_out[1].ret
            prefill == dec_response.details.prefill
        IN  /\ ret.result = dec_response.generated_text
            /\ IF returns_logits
               THEN /\ ret.logits # None
                    /\ Len(ret.logits[1]) = Len(prefill)
                    /\ \A i \in 1..Len(prefill) :
                          ret.logits[1][i] = prefill[i].logprob
               ELSE ret.logits = None

\* a response with generated text and a prefill of two entries or more, the
\* first without logprob, has been decoded with logits requested
C16_Witness ==
    /\ dec_out # None
    /\ dec_out[1].kind = "greedy"
    /\ returns_logits
    /\ dec_response.generated_text # <<>>
    /\ Len(dec_response.details.prefill) >= 2
    /\ dec_response.details.prefill[1].logprob = None
    /\ dec_out[1].ret.logits[1][1] = None
    /\ dec_out[1].ret.logits[1][2] # None

\* C18: every decoded result, of greedy_until, loglikelihood or
\* loglikelihood_rolling, has truncated_tokens_count = -1 and
\* padded_tokens_count = -1
C18_SentinelCounts ==
    dec_out # None =>
        /\ dec_out[1].ret.truncated_tokens_count = 0 - 1
        /\ dec_out[1].ret.padded_tokens_count = 0 - 1

\* a loglikelihood response with context and continuation tokens in its
\* prefill has been decoded
C18_Witness ==
    /\ dec_out # None
    /\ dec_out[1].kind = "loglikelihood"
    /\ dec_len_choice >= 1
    /\ Len(dec_response.details.prefill) > dec_len_choice
    /\ dec_out[1].ret.input_tokens # <<>>
    /\ dec_out[1].ret.padded_tokens_count = 0 - 1

\* C17: a greedy_until, loglikelihood or loglikelihood_rolling run over an
\* empty request list forms no batch, issues no call, raises no error and
\* returns the empty result list
C17_EmptyRun ==
    (op \in LoopOps /\ requests = <<>>) =>
        /\ pc \in {"splits", "batches", "returned"}
        /\ batch = <<>>
        /\ handed = <<>>
        /\ calls = <<>>
        /\ error = ""
        /\ results = <<>>
        /\ pc = "returned" => returned = Some(<<>>)

\* greedy_until over the empty list has gone through all its splits and
\* returned
C17_Witness ==
    /\ op = "greedy_until"
    /\ requests = <<>>
    /\ pc = "returned"
    /\ split_id = DATASET_SPLITS
    /\ returned = Some(<<>>)

\* C20: in concurrent mode the calls in flight are calls of the current
\* batch, at most batch_size of them, pending only while the batch is joined;
\* every call issued for an earlier batch has completed
C20_OneBatchInFlight ==
    /\ inflight # {} => (pc = "gathering" /\ use_async)
    /\ inflight \subseteq 1..Len(batch)
    /\ Cardinality(inflight) <= batch_size
    /\ (use_async /\ op \in LoopOps) =>
          \A c \in 1..Len(calls) :
              LET i == calls[c].request
              IN  responded[i] = None =>
                      /\ pc \in {"gathering", "raised"}
                      /\ \E k \in 1..Len(batch) :
                            /\ batch[k] = i
                            /\ pc = "gathering" => k \in inflight

\* with batch size 1, the call of the second request of a split is in flight
\* after the call of the first has completed
C20_Witness ==
    /\ use_async
    /\ pc = "gathering"
    /\ batch_size = 1
    /\ SplitLen(splits, split_id) = 2
    /\ Len(handed) = 2
    /\ Len(batch) = 1
    /\ inflight = {1}
    /\ responded[handed[1]] # None
    /\ responded[batch[1]] = None

\* C19: for an endpoint configuration the client handles are taken only
\* after the one wait has returned with the endpoint running; when the wait
\* fails the constructor has failed for good: no further wait, no handle, no
\* run operation and no call
C19_WaitBeforeClients ==
    [][ /\ (config # "inference" /\ (client' # client \/ async_client' # async_client))
            => (waits = 1 /\ endpoint = Some("running"))
        /\ waits' <= 1
        /\ engine' = "failed" =>
              /\ config # "inference"
              /\ waits' = 1
              /\ client' = None
              /\ async_client' = None
              /\ calls' = <<>>
              /\ op' = "none"
        /\ engine = "failed" => engine' = "failed"
        /\ (calls' # calls \/ op' # op) => (engine = "ready" /\ engine' = "ready")
      ]_vars

\* the wait for a newly created endpoint has timed out
C19_Witness ==
    /\ config = "endpoint_create"
    /\ engine = "failed"
    /\ endpoint = Some("pending")
    /\ waits = 1
    /\ client = None
    /\ error = "InferenceEndpointTimeoutError"

\* C21: after a greedy_until run each request has the stop_sequence the
\* caller passed it with
C21_StopSequenceKept ==
    (Ended /\ op = "greedy_until") =>
        \A i \in 1..Len(requests) : requests[i].stop_sequence = given_stops[i]

Decoded(i) ==
    \E k \in 1..Len(handed) : handed[k] = i /\ k <= Len(results)

\* the stage of the request at index i in the current run
Stage(i) ==
    IF i \in failed THEN "Failed"
    ELSE IF Decoded(i) THEN "Decoded"
    ELSE IF CallsFor(i) > 0 THEN "Dispatched"
    ELSE IF /\ requests[i].tokenized_context # None
            /\ requests[i].tokenized_continuation # None THEN "Tokenized"
    ELSE "Created"

StageSteps ==
    {<<"Created", "Tokenized">>, <<"Tokenized", "Dispatched">>,
     <<"Dispatched", "Decoded">>, <<"Created", "Failed">>,
     <<"Tokenized", "Failed">>, <<"Dispatched", "Failed">>}

\* C23: in every step of a run each request keeps its stage or moves along
\* Created -> Tokenized -> Dispatched -> Decoded or from one of the first
\* three to Failed; a decoded request has been called and answered, and no
\* call is issued for a failed request
C23_RequestStages ==
    [][ (op \in LoopOps /\ pc # "idle" /\ pc' # "idle") =>
            \A i \in 1..Len(requests) :
                /\ Stage(i)' = Stage(i) \/ <<Stage(i), Stage(i)'>> \in StageSteps
                /\ Stage(i)' = "Decoded" => (CallsFor(i) = 1 /\ responded[i] # None)
                /\ i \in failed => CallsFor(i)' = CallsFor(i)
      ]_vars

\* in one run the first request has been decoded and the call of the second
\* has failed
C23_Witness ==
    /\ op \in LoglikelihoodOps
    /\ pc = "raised"
    /\ Len(requests) = 2
    /\ Stage(1) = "Decoded"
    /\ Stage(2) = "Failed"

\* C24: in a loglikelihood or loglikelihood_rolling run a call is issued
\* only when every request of the list has both token fields set; when the
\* tokenizer fails its exception reaches the caller as it is, no result is
\* returned and no call has been issued
C24_TokenizedBeforeCalls ==
    op \in LoglikelihoodOps =>
        /\ calls # <<>> =>
              \A i \in 1..Len(requests) :
                  /\ requests[i].tokenized_context # None
                  /\ requests[i].tokenized_continuation # None
        /\ error = "TokenizationFailure" =>
              /\ pc = "raised"
              /\ error_request = None
              /\ returned = None
              /\ results = <<>>
              /\ handed = <<>>
              /\ calls = <<>>

\* the tokenizer has failed on the second of two fresh requests after the
\* first was tokenized
C24_Witness ==
    /\ op \in LoglikelihoodOps
    /\ error = "TokenizationFailure"
    /\ Len(requests) = 2
    /\ requests[1].tokenized_continuation # None
    /\ requests[2].tokenized_continuation = None
    /\ calls = <<>>

\* C26: once a call has failed the run operation has raised and its caller
\* has no results, those decoded from earlier batches included; calls were
\* issued only for the batches handed out so far, and the run takes no
\* further step
C26_AllOrNothing ==
    [][ /\ failed' # {} =>
              /\ pc' = "raised"
              /\ returned' = None
              /\ \A c \in 1..Len(calls') : calls'[c].request \in Range(handed')
        /\ failed # {} => (pc' = "idle" /\ calls' = <<>> /\ returned' = None)
      ]_vars

\* the call of the second request has failed after the first request, in a
\* batch of its own, had been decoded
C26_Witness ==
    /\ pc = "raised"
    /\ Len(requests) = 2
    /\ failed = {2}
    /\ Len(results) = 1
    /\ Len(batch) = 1
    /\ returned = None

\* C27: for every response and every continuation length, 0 and lengths
\* beyond the prefill included, the input_tokens of the decoded loglikelihood
\* result followed by its generated_tokens are the ids of the prefill in
\* order, and every logprob of the result is a number
C27_LoglikelihoodPartition ==
    (dec_out # None /\ dec_out[1].kind = "loglikelihood") =>
        LET ret == dec_out[1].ret
            prefill == dec_response.details.prefill
        IN  /\ ret.input_tokens \o ret.generated_tokens = Ids(prefill)
            /\ Len(ret.input_tokens) + Len(ret.generated_tokens) = Len(prefill)
            /\ \A k \in 1..Len(ret.result) : ret.result[k] \in Int
            /\ Len(ret.result) <= Len(ret.generated_tokens)

\* a response with a prefill of two entries or more, one of them without
\* logprob, has been decoded for a continuation of length 0
C27_Witness ==
    /\ dec_out # None
    /\ dec_out[1].kind = "loglikelihood"
    /\ dec_len_choice = 0
    /\ Len(dec_response.details.prefill) >= 2
    /\ dec_response.details.prefill[1].logprob = None
    /\ dec_response.details.prefill[2].logprob # None

C25_CapabilitiesFixed ==
    [][ /\ (engine # "ready" /\ engine' = "ready") =>
              /\ use_async' = FALSE
              /\ client' # None
              /\ async_client' # None
              /\ (endpoint' = None) <=> (config = "inference")
        /\ engine = "ready" =>
              /\ engine' = "ready"
              /\ config' = config
              /\ (endpoint' = None) <=> (endpoint = None)
              /\ client' = client
              /\ async_client' = async_client
              /\ use_async' = use_async
      ]_vars

\* an engine built on a reused endpoint has run loglikelihood to its return
\* and has then been cleaned up
C25_Witness ==
    /\ config = "endpoint_reuse"
    /\ engine = "ready"
    /\ cleaned
    /\ requests # <<>>
    /\ requests[1].tokenized_continuation # None
    /\ client = Some("endpoint.client")
    /\ async_client = Some("endpoint.async_client")
    /\ ~use_async

\* C29: once cleanup has been called the endpoint the engine holds is
\* deleted, and an engine without endpoint still has none; before that the
\* endpoint is not deleted, and the step that deletes it is a cleanup, not a
\* step of a run operation
C29_DeletedByCleanupOnly ==
    [][ /\ cleaned' =>
              IF config = "inference" THEN endpoint' = None
              ELSE endpoint' = Some("deleted")
        /\ ~cleaned' => endpoint' # Some("deleted")
        /\ (endpoint' # endpoint /\ endpoint' = Some("deleted")) =>
              /\ ~Ended /\ pc = "idle" /\ pc' = "idle"
              /\ op' = op
              /\ calls' = calls
              /\ requests' = requests
              /\ endpoint = Some("running")
      ]_vars

\* the endpoint the constructor created has been deleted by cleanup
C29_Witness ==
    /\ config = "endpoint_create"
    /\ engine = "ready"
    /\ cleaned
    /\ endpoint = Some("deleted")
    /\ waits = 1

====
